---- MODULE Spec2Model ----
(***************************************************************************)
(* Wallet ledger of the mini-store backend: the route handlers that move   *)
(* money (purchase, gift, transfer-credits, create-checkout-session, the   *)
(* Stripe webhook, process-pending-payments, manual-update-wallet) run as  *)
(* concurrent requests against one database.  One action is one atomic     *)
(* database step of a handler (one awaited prisma call, or one             *)
(* prisma.$transaction), together with the local computation that          *)
(* precedes it; whatever a handler read in an earlier step is carried in   *)
(* its request record, exactly as the handler carries it in local          *)
(* constants.                                                              *)
(*                                                                         *)
(* Amounts are whole credits: every amount of the model is an integer and  *)
(* every discount divides exactly, so the arithmetic of the handlers is    *)
(* exact here.                                                             *)
(***************************************************************************)
EXTENDS Integers, Sequences, FiniteSets, TLC

\* ------------------------------------------------------------------ bounds
\* Number of requests one behaviour issues.
MaxReqs == 3

\* --------------------------------------------------------- program constants
DEFAULT_WALLET_CREDIT == 1000

\* ------------------------------------------------------------------ domains
Reqs == 1..MaxReqs
Users == {"u1", "u2"}
NoUser == "nobody"
\* recipientEmail of a request: a registered user's email, or an unknown one
Emails == Users \cup {NoUser}
\* the catalog collaborator (dummyjson.com/products/:id): one known product
Catalog == [prodA |-> [price |-> 625, discountPercentage |-> 20]]
ProductIds == {"prodA", "missing"}
Quantities == {0, 1, 2}
\* amount of a transfer / top-up / manual update request body
Amounts == {0, 500, 1500}
TopUps == {-10, 0, 500}
\* request.body of a top-up request: {amount: a}, or a body without amount
TopUpBodies == {[amount |-> a] : a \in TopUps} \cup {[currency |-> "usd"]}

VARIABLES
    walletBalance,    \* User.walletBalance, by user id
    orders,           \* Order rows
    gifts,            \* Gift rows
    creditTransfers,  \* CreditTransfer rows
    payments,         \* Payment rows, in creation order (id = position)
    sessions,         \* checkout sessions opened at the payment processor
    credited,         \* history: per Payment, how often its amount was credited
    completedBy,      \* history: per Payment, the path that first completed it
    userRows,         \* User rows as created: email, initial walletBalance,
                      \* and the register request that created the row
    isAdmin,          \* per user, the isAdmin flag of the User row
    req               \* the requests: position in the handler, locals, response

vars == <<walletBalance, orders, gifts, creditTransfers, payments, sessions,
          credited, completedBy, userRows, isAdmin, req>>

\* A request slot before its request arrives.
Blank ==
    [pc |-> "idle", kind |-> "none", user |-> NoUser, to |-> NoUser,
     productId |-> "none", quantity |-> 0,
     amt |-> 0, bal |-> 0, tobal |-> 0, pay |-> 0, pre |-> "none",
     todo |-> <<>>, snap |-> {}, moved |-> {}, count |-> 0,
     token |-> "none", signed |-> FALSE,
     email |-> "none", password |-> "none", isAdmin |-> FALSE,
     solo |-> FALSE, resp |-> "none"]

InFlight(q) == req[q].pc \notin {"idle", "done"}

\* Requests arrive in slot order (slots are interchangeable).
CanStart(p) ==
    req[p].pc = "idle" /\ (IF p = 1 THEN TRUE ELSE req[p - 1].pc # "idle")

\* No request other than p is in flight.
Quiet(p) == \A q \in Reqs \ {p} : ~InFlight(q)

\* Request p arrives and takes its first step, ending in record r.  solo is
\* history, kept while a request is in flight: no other request has been in
\* flight at any moment of this request's life so far.
Arrive(p, r) ==
    req' = [q \in Reqs |->
              IF q = p THEN [r EXCEPT !.solo = (r.pc # "done" /\ Quiet(p))]
              ELSE IF InFlight(q) THEN [req[q] EXCEPT !.solo = FALSE]
              ELSE req[q]]

\* The same for the handlers that create no User row.
Begin(p, r) == Arrive(p, r) /\ UNCHANGED <<userRows, isAdmin>>

\* Request p, of a handler that creates no User row, takes a later step,
\* ending in record r.
Step(p, r) ==
    req' = [req EXCEPT ![p] = r] /\ UNCHANGED <<userRows, isAdmin>>

\* A handler returns its response: its locals are gone, the request's caller,
\* amount, balance checked and Payment stay on record with the response.
Done(r, response) ==
    [r EXCEPT !.pc = "done", !.resp = response, !.tobal = 0, !.pre = "none",
              !.todo = <<>>, !.snap = {}, !.moved = {}, !.solo = FALSE]

\* The user the make-admin script has made an admin.
FirstAdmin == "u1"

Init ==
    /\ walletBalance = [u \in Users |-> DEFAULT_WALLET_CREDIT]
    /\ orders = {}
    /\ gifts = {}
    /\ creditTransfers = {}
    /\ payments = <<>>
    /\ sessions = {}
    /\ credited = <<>>
    /\ completedBy = <<>>
    /\ userRows = {[createdBy |-> 0, email |-> u,
                    walletBalance |-> DEFAULT_WALLET_CREDIT] : u \in Users}
    /\ isAdmin = [u \in Users |-> u = FirstAdmin]
    /\ req = [p \in Reqs |-> Blank]

\* The authenticated caller of an arriving request.  The users are
\* interchangeable (same initial row, no handler tells them apart), so the
\* first request that names a user is taken to come from u1.
Callers ==
    IF \A q \in Reqs : req[q].user = NoUser THEN {"u1"} ELSE Users

\* ------------------------------------------------------------- pricing
\* discountPrice = price - (price * (discountPercentage || 0)) / 100
DiscountPrice(product) ==
    product.price - (product.price * product.discountPercentage) \div 100

\* totalAmount = discountPrice * quantity
TotalAmount(productId, quantity) == DiscountPrice(Catalog[productId]) * quantity

\* Number(user.walletBalance) < totalAmount
InsufficientBalance(balance, amount) == balance < amount

\* PurchaseStart without the check of the quantity.
PurchaseStartAnyQuantity(p) ==
    /\ CanStart(p)
    /\ \E u \in Callers, productId \in ProductIds, quantity \in Quantities :
         LET r0 == [Blank EXCEPT !.kind = "purchase"] IN
         IF FALSE
           THEN Begin(p, Done(r0, "InvalidInput"))
         ELSE IF productId \notin DOMAIN Catalog
           THEN Begin(p, Done(r0, "ProductNotFound"))
         ELSE LET totalAmount == TotalAmount(productId, quantity)
                  r1 == [r0 EXCEPT !.user = u, !.productId = productId,
                                   !.quantity = quantity,
                                   !.amt = totalAmount,
                                   !.bal = walletBalance[u]]
              IN IF InsufficientBalance(walletBalance[u], totalAmount)
                   THEN Begin(p, Done(r1, "InsufficientFunds"))
                   ELSE Begin(p, [r1 EXCEPT !.pc = "tx"])
    /\ UNCHANGED <<walletBalance, orders, gifts, creditTransfers, payments,
                   sessions, credited, completedBy>>

\* ------------------------------------------------------------- purchase
\* PurchaseStart with the Order created before the balance check.
PurchaseStartOrderFirst(p) ==
    /\ CanStart(p)
    /\ \E u \in Callers, productId \in ProductIds, quantity \in Quantities :
         LET r0 == [Blank EXCEPT !.kind = "purchase"] IN
         IF quantity < 1
           THEN Begin(p, Done(r0, "InvalidInput")) /\ UNCHANGED orders
         ELSE IF productId \notin DOMAIN Catalog
           THEN Begin(p, Done(r0, "ProductNotFound")) /\ UNCHANGED orders
         ELSE LET totalAmount == TotalAmount(productId, quantity)
                  r1 == [r0 EXCEPT !.user = u, !.productId = productId,
                                   !.quantity = quantity,
                                   !.amt = totalAmount,
                                   !.bal = walletBalance[u]]
              IN IF InsufficientBalance(walletBalance[u], totalAmount)
                   THEN /\ Begin(p, Done(r1, "InsufficientFunds"))
                        /\ orders' = orders \cup
                             {[id |-> p, userId |-> u,
                               productId |-> productId,
                               quantity |-> quantity,
                               totalAmount |-> totalAmount]}
                   ELSE Begin(p, [r1 EXCEPT !.pc = "tx"]) /\ UNCHANGED orders
    /\ UNCHANGED <<walletBalance, gifts, creditTransfers, payments,
                   sessions, credited, completedBy>>

\* POST /purchase up to the balance check: validation, catalog fetch, the
\* read of the buyer's row and the check on the value read.
PurchaseStart(p) ==
    /\ CanStart(p)
    /\ \E u \in Callers, productId \in ProductIds, quantity \in Quantities :
         LET r0 == [Blank EXCEPT !.kind = "purchase"] IN
         IF quantity < 1
           THEN Begin(p, Done(r0, "InvalidInput"))
         ELSE IF productId \notin DOMAIN Catalog
           THEN Begin(p, Done(r0, "ProductNotFound"))
         ELSE LET totalAmount == TotalAmount(productId, quantity)
                  r1 == [r0 EXCEPT !.user = u, !.productId = productId,
                                   !.quantity = quantity,
                                   !.amt = totalAmount,
                                   !.bal = walletBalance[u]]
              IN IF InsufficientBalance(walletBalance[u], totalAmount)
                   THEN Begin(p, Done(r1, "InsufficientFunds"))
                   ELSE Begin(p, [r1 EXCEPT !.pc = "tx"])
    /\ UNCHANGED <<walletBalance, orders, gifts, creditTransfers, payments,
                   sessions, credited, completedBy>>

\* PurchaseCommit with the balance decremented in the database (walletBalance:
\* {decrement: totalAmount}) instead of set from the value read.
PurchaseCommitDecrement(p) ==
    /\ req[p].pc = "tx" /\ req[p].kind = "purchase"
    /\ orders' = orders \cup
         {[id |-> p, userId |-> req[p].user, productId |-> req[p].productId,
           quantity |-> req[p].quantity, totalAmount |-> req[p].amt]}
    /\ walletBalance' = [walletBalance EXCEPT ![req[p].user] = @ - req[p].amt]
    /\ Step(p, Done(req[p], "Created"))
    /\ UNCHANGED <<gifts, creditTransfers, payments, sessions, credited,
                   completedBy>>

\* POST /purchase, the transaction: create the Order and set the buyer's
\* balance to (the balance read before) - totalAmount.
PurchaseCommit(p) ==
    /\ req[p].pc = "tx" /\ req[p].kind = "purchase"
    /\ orders' = orders \cup
         {[id |-> p, userId |-> req[p].user, productId |-> req[p].productId,
           quantity |-> req[p].quantity, totalAmount |-> req[p].amt]}
    /\ walletBalance' =
         [walletBalance EXCEPT ![req[p].user] = req[p].bal - req[p].amt]
    /\ Step(p, Done(req[p], "Created"))
    /\ UNCHANGED <<gifts, creditTransfers, payments, sessions, credited,
                   completedBy>>

\* GiftStart creating the Gift row before the balance check.
GiftStartRowFirst(p) ==
    /\ CanStart(p)
    /\ \E u \in Callers, productId \in ProductIds, quantity \in {0, 1},
          recipientEmail \in Emails :
         LET r0 == [Blank EXCEPT !.kind = "gift"] IN
         IF quantity < 1
           THEN Begin(p, Done(r0, "InvalidInput")) /\ UNCHANGED gifts
         ELSE IF productId \notin DOMAIN Catalog
           THEN Begin(p, Done(r0, "ProductNotFound")) /\ UNCHANGED gifts
         ELSE IF recipientEmail \notin Users
           THEN Begin(p, Done(r0, "RecipientNotFound")) /\ UNCHANGED gifts
         ELSE IF u = recipientEmail
           THEN Begin(p, Done(r0, "SelfNotAllowed")) /\ UNCHANGED gifts
         ELSE LET totalAmount == TotalAmount(productId, quantity)
                  r1 == [r0 EXCEPT !.user = u, !.to = recipientEmail,
                                   !.productId = productId,
                                   !.quantity = quantity,
                                   !.amt = totalAmount,
                                   !.bal = walletBalance[u]]
              IN /\ gifts' = gifts \cup
                      {[id |-> p, senderId |-> u,
                        receiverId |-> recipientEmail,
                        productId |-> productId, quantity |-> quantity,
                        totalAmount |-> totalAmount]}
                 /\ IF InsufficientBalance(walletBalance[u], totalAmount)
                      THEN Begin(p, Done(r1, "InsufficientFunds"))
                      ELSE Begin(p, [r1 EXCEPT !.pc = "tx"])
    /\ UNCHANGED <<walletBalance, orders, creditTransfers, payments,
                   sessions, credited, completedBy>>

\* ------------------------------------------------------------- gift
\* POST /gift up to the balance check: validation, catalog fetch, recipient
\* lookup by email, self-gift check, the read of the sender's row and the
\* check on the value read.
GiftStart(p) ==
    /\ CanStart(p)
    /\ \E u \in Callers, productId \in ProductIds, quantity \in {0, 1},
          recipientEmail \in Emails :
         LET r0 == [Blank EXCEPT !.kind = "gift"] IN
         IF quantity < 1
           THEN Begin(p, Done(r0, "InvalidInput"))
         ELSE IF productId \notin DOMAIN Catalog
           THEN Begin(p, Done(r0, "ProductNotFound"))
         ELSE IF recipientEmail \notin Users
           THEN Begin(p, Done(r0, "RecipientNotFound"))
         ELSE IF u = recipientEmail
           THEN Begin(p, Done(r0, "SelfNotAllowed"))
         ELSE LET totalAmount == TotalAmount(productId, quantity)
                  r1 == [r0 EXCEPT !.user = u, !.to = recipientEmail,
                                   !.productId = productId,
                                   !.quantity = quantity,
                                   !.amt = totalAmount,
                                   !.bal = walletBalance[u]]
              IN IF InsufficientBalance(walletBalance[u], totalAmount)
                   THEN Begin(p, Done(r1, "InsufficientFunds"))
                   ELSE Begin(p, [r1 EXCEPT !.pc = "tx"])
    /\ UNCHANGED <<walletBalance, orders, gifts, creditTransfers, payments,
                   sessions, credited, completedBy>>

\* GiftCommit that writes the gift table anew instead of adding a row.
GiftCommitReplace(p) ==
    /\ req[p].pc = "tx" /\ req[p].kind = "gift"
    /\ gifts' =
         {[id |-> p, senderId |-> req[p].user, receiverId |-> req[p].to,
           productId |-> req[p].productId, quantity |-> req[p].quantity,
           totalAmount |-> req[p].amt]}
    /\ walletBalance' =
         [walletBalance EXCEPT ![req[p].user] = req[p].bal - req[p].amt]
    /\ Step(p, Done(req[p], "Created"))
    /\ UNCHANGED <<orders, creditTransfers, payments, sessions, credited,
                   completedBy>>

\* POST /gift, the transaction: create the Gift and set the sender's balance
\* to (the balance read before) - totalAmount.  The receiver's row is not
\* written.
GiftCommit(p) ==
    /\ req[p].pc = "tx" /\ req[p].kind = "gift"
    /\ gifts' = gifts \cup
         {[id |-> p, senderId |-> req[p].user, receiverId |-> req[p].to,
           productId |-> req[p].productId, quantity |-> req[p].quantity,
           totalAmount |-> req[p].amt]}
    /\ walletBalance' =
         [walletBalance EXCEPT ![req[p].user] = req[p].bal - req[p].amt]
    /\ Step(p, Done(req[p], "Created"))
    /\ UNCHANGED <<orders, creditTransfers, payments, sessions, credited,
                   completedBy>>

\* TransferStart rejecting only a negative amount.
TransferStartZeroAllowed(p) ==
    /\ CanStart(p)
    /\ \E u \in Callers, recipientEmail \in Emails, amount \in Amounts :
         LET r0 == [Blank EXCEPT !.kind = "transfer"] IN
         IF amount < 0
           THEN Begin(p, Done(r0, "InvalidInput"))
         ELSE IF recipientEmail \notin Users
           THEN Begin(p, Done(r0, "RecipientNotFound"))
         ELSE IF u = recipientEmail
           THEN Begin(p, Done(r0, "SelfNotAllowed"))
         ELSE Begin(p, [r0 EXCEPT !.pc = "readSender", !.user = u,
                                  !.to = recipientEmail,
                                  !.amt = amount,
                                  !.tobal = walletBalance[recipientEmail]])
    /\ UNCHANGED <<walletBalance, orders, gifts, creditTransfers, payments,
                   sessions, credited, completedBy>>

\* TransferStart without the comparison of the recipient with the sender.
TransferStartNoSelfCheck(p) ==
    /\ CanStart(p)
    /\ \E u \in Callers, recipientEmail \in Emails, amount \in Amounts :
         LET r0 == [Blank EXCEPT !.kind = "transfer"] IN
         IF amount <= 0
           THEN Begin(p, Done(r0, "InvalidInput"))
         ELSE IF recipientEmail \notin Users
           THEN Begin(p, Done(r0, "RecipientNotFound"))
         ELSE Begin(p, [r0 EXCEPT !.pc = "readSender", !.user = u,
                                  !.to = recipientEmail,
                                  !.amt = amount,
                                  !.tobal = walletBalance[recipientEmail]])
    /\ UNCHANGED <<walletBalance, orders, gifts, creditTransfers, payments,
                   sessions, credited, completedBy>>

\* ------------------------------------------------------------- transfer
\* POST /transfer-credits up to the self-transfer check: validation and the
\* recipient lookup, which also reads the recipient's balance.
TransferStart(p) ==
    /\ CanStart(p)
    /\ \E u \in Callers, recipientEmail \in Emails, amount \in Amounts :
         LET r0 == [Blank EXCEPT !.kind = "transfer"] IN
         IF amount <= 0
           THEN Begin(p, Done(r0, "InvalidInput"))
         ELSE IF recipientEmail \notin Users
           THEN Begin(p, Done(r0, "RecipientNotFound"))
         ELSE IF u = recipientEmail
           THEN Begin(p, Done(r0, "SelfNotAllowed"))
         ELSE Begin(p, [r0 EXCEPT !.pc = "readSender", !.user = u,
                                  !.to = recipientEmail,
                                  !.amt = amount,
                                  !.tobal = walletBalance[recipientEmail]])
    /\ UNCHANGED <<walletBalance, orders, gifts, creditTransfers, payments,
                   sessions, credited, completedBy>>

\* POST /transfer-credits: the read of the sender's row and the check on it.
TransferReadSender(p) ==
    /\ req[p].pc = "readSender"
    /\ LET r1 == [req[p] EXCEPT !.bal = walletBalance[req[p].user]] IN
         IF InsufficientBalance(walletBalance[req[p].user], req[p].amt)
           THEN Step(p, Done(r1, "InsufficientFunds"))
           ELSE Step(p, [r1 EXCEPT !.pc = "tx"])
    /\ UNCHANGED <<walletBalance, orders, gifts, creditTransfers, payments,
                   sessions, credited, completedBy>>

\* TransferCommit without the update of the recipient's row.
TransferCommitNoCredit(p) ==
    /\ req[p].pc = "tx" /\ req[p].kind = "transfer"
    /\ creditTransfers' = creditTransfers \cup
         {[id |-> p, senderId |-> req[p].user, receiverId |-> req[p].to,
           amount |-> req[p].amt]}
    /\ walletBalance' =
         [walletBalance EXCEPT ![req[p].user] = req[p].bal - req[p].amt]
    /\ Step(p, Done(req[p], "Created"))
    /\ UNCHANGED <<orders, gifts, payments, sessions, credited, completedBy>>

\* POST /transfer-credits, the transaction: create the CreditTransfer, set
\* the sender's balance to (sender balance read) - amount and the recipient's
\* to (recipient balance read) + amount.
TransferCommit(p) ==
    /\ req[p].pc = "tx" /\ req[p].kind = "transfer"
    /\ creditTransfers' = creditTransfers \cup
         {[id |-> p, senderId |-> req[p].user, receiverId |-> req[p].to,
           amount |-> req[p].amt]}
    /\ walletBalance' =
         [walletBalance EXCEPT ![req[p].user] = req[p].bal - req[p].amt,
                               ![req[p].to] = req[p].tobal + req[p].amt]
    /\ Step(p, Done(req[p], "Created"))
    /\ UNCHANGED <<orders, gifts, payments, sessions, credited, completedBy>>

\* ------------------------------------------------------------- top-up
\* The processor's payment-intent id of checkout session s.
PaymentIntent(s) == <<"pi", s>>
\* The processor's id of checkout session s.
SessionId(s) == <<"cs", s>>
Null == <<"null">>

\* !amount || amount <= 0
InvalidAmount(body) == "amount" \notin DOMAIN body \/ body.amount <= 0

\* CheckoutStart rejecting only a missing or negative amount.
CheckoutStartZeroAllowed(p) ==
    /\ CanStart(p)
    /\ \E u \in Callers, body \in TopUpBodies,
          intent \in {PaymentIntent(p), Null} :
         LET r0 == [Blank EXCEPT !.kind = "checkout"] IN
         IF "amount" \notin DOMAIN body \/ body.amount < 0
           THEN /\ Begin(p, Done(r0, "InvalidAmount"))
                /\ UNCHANGED sessions
           ELSE /\ Begin(p, [r0 EXCEPT !.pc = "insert", !.user = u,
                                       !.amt = body.amount])
                /\ sessions' = sessions \cup
                     {[id |-> p, payment_intent |-> intent,
                       userId |-> u, amount |-> body.amount]}
    /\ UNCHANGED <<walletBalance, orders, gifts, creditTransfers, payments,
                   credited, completedBy>>

\* POST /create-checkout-session up to the processor call: validation and
\* stripe.checkout.sessions.create.  The session the processor returns
\* carries its payment intent, or null when the processor creates the intent
\* only at payment.
CheckoutStart(p) ==
    /\ CanStart(p)
    /\ \E u \in Callers, body \in TopUpBodies,
          intent \in {PaymentIntent(p), Null} :
         LET r0 == [Blank EXCEPT !.kind = "checkout"] IN
         IF InvalidAmount(body)
           THEN /\ Begin(p, Done(r0, "InvalidAmount"))
                /\ UNCHANGED sessions
           ELSE /\ Begin(p, [r0 EXCEPT !.pc = "insert", !.user = u,
                                       !.amt = body.amount])
                /\ sessions' = sessions \cup
                     {[id |-> p, payment_intent |-> intent,
                       userId |-> u, amount |-> body.amount]}
    /\ UNCHANGED <<walletBalance, orders, gifts, creditTransfers, payments,
                   credited, completedBy>>

\* paymentIntentId = session.payment_intent, or session.id when it is null
StoredReference(session) ==
    IF session.payment_intent # Null THEN session.payment_intent
    ELSE SessionId(session.id)

\* The uniqueness constraint of Payment.stripePaymentIntentId: a row with
\* this reference is stored already.
ReferenceTaken(ref) ==
    \E i \in 1..Len(payments) : payments[i].stripePaymentIntentId = ref

\* CheckoutInsert with the row created as already succeeded.
CheckoutInsertSucceeded(p) ==
    /\ req[p].pc = "insert"
    /\ LET session == CHOOSE s \in sessions : s.id = p IN
         payments' = Append(payments,
           [userId |-> req[p].user,
            stripePaymentIntentId |-> StoredReference(session),
            amount |-> req[p].amt, status |-> "succeeded"])
    /\ credited' = Append(credited, 0)
    /\ completedBy' = Append(completedBy, "none")
    /\ Step(p, Done([req[p] EXCEPT !.pay = Len(payments) + 1], "OK"))
    /\ UNCHANGED <<walletBalance, orders, gifts, creditTransfers, sessions>>

\* CheckoutInsert answering with the redirect url without the insert.
CheckoutRespondOnly(p) ==
    /\ req[p].pc = "insert"
    /\ Step(p, Done(req[p], "OK"))
    /\ UNCHANGED <<walletBalance, orders, gifts, creditTransfers, payments,
                   sessions, credited, completedBy>>

\* CheckoutInsert on a table without the uniqueness of the reference.
CheckoutInsertDuplicate(p) ==
    /\ req[p].pc = "insert"
    /\ LET session == CHOOSE s \in sessions : s.id = p IN
         payments' = Append(payments,
           [userId |-> req[p].user,
            stripePaymentIntentId |-> StoredReference(session),
            amount |-> req[p].amt, status |-> "pending"])
    /\ credited' = Append(credited, 0)
    /\ completedBy' = Append(completedBy, "none")
    /\ Step(p, Done([req[p] EXCEPT !.pay = Len(payments) + 1], "OK"))
    /\ UNCHANGED <<walletBalance, orders, gifts, creditTransfers, sessions>>

\* POST /create-checkout-session: prisma.payment.create with status pending,
\* then the response with the redirect url.  A create whose reference is
\* already stored is refused by the store; the exception is answered 500 by
\* the catch block and no row is written.
CheckoutInsert(p) ==
    /\ req[p].pc = "insert"
    /\ LET session == CHOOSE s \in sessions : s.id = p IN
         IF ReferenceTaken(StoredReference(session))
           THEN /\ Step(p, Done(req[p], "Failed"))
                /\ UNCHANGED <<payments, credited, completedBy>>
           ELSE /\ payments' = Append(payments,
                     [userId |-> req[p].user,
                      stripePaymentIntentId |-> StoredReference(session),
                      amount |-> req[p].amt, status |-> "pending"])
                /\ credited' = Append(credited, 0)
                /\ completedBy' = Append(completedBy, "none")
                /\ Step(p, Done([req[p] EXCEPT !.pay = Len(payments) + 1],
                                "OK"))
    /\ UNCHANGED <<walletBalance, orders, gifts, creditTransfers, sessions>>

\* ------------------------------------------------------------- webhook
\* The processor delivers checkout.session.completed for a session only
\* after the client was handed its redirect url.
Deliverable(session) ==
    \E q \in Reqs : /\ req[q].kind = "checkout" /\ req[q].pc = "done"
                    /\ req[q].resp = "OK" /\ session.id = q

\* Payment ids whose stripePaymentIntentId is ref.
PaymentsByReference(ref) ==
    {i \in 1..Len(payments) : payments[i].stripePaymentIntentId = ref}

\* parseFloat(session.metadata?.amount || '0') of a delivery whose metadata
\* is the one create-checkout-session set: amount.toString().
EchoedAmount(session) == {session.amount}

\* POST /webhook for a delivery (with its token and signature on record)
\* that has passed the router's authenticateToken and
\* stripe.webhooks.constructEvent and carries a checkout.session.completed
\* event whose metadata amount is the session's or one of others, first
\* database step:
\* prisma.payment.update({where: {stripePaymentIntentId}, data: {status:
\* 'succeeded'}}), whatever the row's status is.  The completed session
\* carries its payment intent.  A missing row makes update throw: response
\* 500.  pre is history: the status the row had before this update.
WebhookHandle(p, token, signed, others) ==
    /\ CanStart(p)
    /\ \E session \in sessions :
         /\ Deliverable(session)
         /\ \E amount \in EchoedAmount(session) \cup others :
            LET found == PaymentsByReference(PaymentIntent(session.id))
                r0 == [Blank EXCEPT !.kind = "webhook",
                                    !.token = token, !.signed = signed,
                                    !.amt = amount]
            IN IF found = {}
                 THEN /\ Begin(p, Done([r0 EXCEPT !.pay = 0], "Failed"))
                      /\ UNCHANGED <<payments, completedBy>>
                 ELSE LET i == CHOOSE i \in found : TRUE IN
                      /\ payments' = [payments EXCEPT ![i].status = "succeeded"]
                      /\ completedBy' =
                           [completedBy EXCEPT ![i] =
                              IF payments[i].status = "pending"
                                THEN "webhook" ELSE @]
                      /\ Begin(p, [r0 EXCEPT !.pc = "credit", !.pay = i,
                                             !.user = payments[i].userId,
                                             !.pre = payments[i].status])
    /\ UNCHANGED <<walletBalance, orders, gifts, creditTransfers, sessions,
                   credited>>

\* The delivery as the router lets it through: it carries an access token
\* that verifies and a payload signed with the endpoint secret.
WebhookUpdatePayment(p) == WebhookHandle(p, "valid", TRUE, {})

\* POST /webhook, second database step: prisma.user.update of the Payment's
\* user, walletBalance incremented by the amount of the session's metadata;
\* then the response {received: true}.
WebhookCredit(p) ==
    /\ req[p].pc = "credit"
    /\ walletBalance' =
         [walletBalance EXCEPT ![req[p].user] = @ + req[p].amt]
    /\ credited' = [credited EXCEPT ![req[p].pay] = @ + 1]
    /\ Step(p, Done(req[p], "Received"))
    /\ UNCHANGED <<orders, gifts, creditTransfers, payments, sessions,
                   completedBy>>

\* ------------------------------------------------ process-pending-payments
\* Ids of the caller's pending Payments, newest first (orderBy createdAt desc).
RECURSIVE Descending(_)
Descending(S) ==
    IF S = {} THEN <<>>
    ELSE LET m == CHOOSE x \in S : \A y \in S : y <= x
         IN <<m>> \o Descending(S \ {m})

PendingOf(u) ==
    {i \in 1..Len(payments) :
        payments[i].userId = u /\ payments[i].status = "pending"}

\* ProcessPendingFind without the userId in the where clause of findMany.
ProcessPendingFindAnyUser(p) ==
    /\ CanStart(p)
    /\ \E u \in Callers :
         LET r0 == [Blank EXCEPT !.kind = "processPending", !.user = u] IN
         IF {i \in 1..Len(payments) : payments[i].status = "pending"} = {}
           THEN Begin(p, Done(r0, "NothingPending"))
           ELSE Begin(p, [r0 EXCEPT !.pc = "loop", !.snap = {i \in 1..Len(payments) : payments[i].status = "pending"},
                                    !.todo = Descending({i \in 1..Len(payments) : payments[i].status = "pending"})])
    /\ UNCHANGED <<walletBalance, orders, gifts, creditTransfers, payments,
                   sessions, credited, completedBy>>

\* POST /process-pending-payments, the findMany.  With nothing pending the
\* loop body never runs, totalAmount stays 0 and the handler answers at once.
ProcessPendingFind(p) ==
    /\ CanStart(p)
    /\ \E u \in Callers :
         LET r0 == [Blank EXCEPT !.kind = "processPending", !.user = u] IN
         IF PendingOf(u) = {}
           THEN Begin(p, Done(r0, "NothingPending"))
           ELSE Begin(p, [r0 EXCEPT !.pc = "loop", !.snap = PendingOf(u),
                                    !.todo = Descending(PendingOf(u))])
    /\ UNCHANGED <<walletBalance, orders, gifts, creditTransfers, payments,
                   sessions, credited, completedBy>>

\* ProcessPendingUpdate with totalAmount = payment.amount instead of +=.
ProcessPendingUpdateLastOnly(p) ==
    /\ req[p].pc = "loop"
    /\ LET i == Head(req[p].todo) IN
         /\ payments' = [payments EXCEPT ![i].status = "succeeded"]
         /\ completedBy' =
              [completedBy EXCEPT ![i] =
                 IF payments[i].status = "pending" THEN "reconcile" ELSE @]
         /\ Step(p, [req[p] EXCEPT
                       !.amt = payments[i].amount,
                       !.moved = IF payments[i].status = "pending"
                                   THEN @ \cup {i} ELSE @,
                       !.todo = Tail(@),
                       !.pc = IF Tail(req[p].todo) = <<>> THEN "increment"
                              ELSE "loop"])
    /\ UNCHANGED <<walletBalance, orders, gifts, creditTransfers, sessions,
                   credited>>

\* One turn of the loop: prisma.payment.update({where: {id}, data: {status:
\* 'succeeded'}}) and totalAmount += payment.amount (of the row as found).
\* moved is history: the rows that were still pending when this call
\* updated them.
ProcessPendingUpdate(p) ==
    /\ req[p].pc = "loop"
    /\ LET i == Head(req[p].todo) IN
         /\ payments' = [payments EXCEPT ![i].status = "succeeded"]
         /\ completedBy' =
              [completedBy EXCEPT ![i] =
                 IF payments[i].status = "pending" THEN "reconcile" ELSE @]
         /\ Step(p, [req[p] EXCEPT
                       !.amt = @ + payments[i].amount,
                       !.moved = IF payments[i].status = "pending"
                                   THEN @ \cup {i} ELSE @,
                       !.todo = Tail(@),
                       !.pc = IF Tail(req[p].todo) = <<>> THEN "increment"
                              ELSE "loop"])
    /\ UNCHANGED <<walletBalance, orders, gifts, creditTransfers, sessions,
                   credited>>

\* After the loop (totalAmount > 0): prisma.user.update of the caller,
\* walletBalance incremented by totalAmount; then the response with
\* processedPayments = pendingPayments.length (count), totalAmount (amt) and
\* newBalance = updatedUser.walletBalance (bal).
ProcessPendingIncrement(p) ==
    /\ req[p].pc = "increment"
    /\ walletBalance' =
         [walletBalance EXCEPT ![req[p].user] = @ + req[p].amt]
    /\ credited' = [i \in DOMAIN credited |->
                      IF i \in req[p].snap THEN credited[i] + 1
                      ELSE credited[i]]
    /\ Step(p, Done([req[p] EXCEPT
                         !.count = Cardinality(req[p].snap),
                         !.bal = walletBalance[req[p].user] + req[p].amt],
                    "Processed"))
    /\ UNCHANGED <<orders, gifts, creditTransfers, payments, sessions,
                   completedBy>>

\* ------------------------------------------------------ manual-update-wallet
\* POST /manual-update-wallet: validation, then prisma.user.update of the
\* caller with walletBalance incremented by amount.
ManualUpdateWallet(p) ==
    /\ CanStart(p)
    /\ \E u \in Callers, body \in TopUpBodies :
         LET r0 == [Blank EXCEPT !.kind = "manualUpdate"] IN
         IF InvalidAmount(body)
           THEN /\ Begin(p, Done(r0, "InvalidAmount"))
                /\ UNCHANGED walletBalance
           ELSE /\ Begin(p, Done([r0 EXCEPT !.user = u,
                                            !.amt = body.amount], "Updated"))
                /\ walletBalance' =
                     [walletBalance EXCEPT ![u] = @ + body.amount]
    /\ UNCHANGED <<orders, gifts, creditTransfers, payments, sessions,
                   credited, completedBy>>

Next ==
    \E p \in Reqs :
        \/ PurchaseStart(p)
        \/ PurchaseCommit(p)
        \/ GiftStart(p)
        \/ GiftCommit(p)
        \/ TransferStart(p)
        \/ TransferReadSender(p)
        \/ TransferCommit(p)
        \/ CheckoutStart(p)
        \/ CheckoutInsert(p)
        \/ WebhookUpdatePayment(p)
        \/ WebhookCredit(p)
        \/ ProcessPendingFind(p)
        \/ ProcessPendingUpdate(p)
        \/ ProcessPendingIncrement(p)
        \/ ManualUpdateWallet(p)

Spec == Init /\ [][Next]_vars

\* ---------------------------------------------------------------- register
\* email of a register request body: a registered user's, a new address, a
\* string that is no address, or none
RegisterEmails == {"u1", "new@example.com", "invalid-email", ""}
\* password of a register request body
Passwords == {"password123", "123", ""}

\* The unique index on User.email: prisma.user.create throws for an email
\* that a row already holds.
EmailTaken(email) == \E row \in userRows : row.email = email

\* POST /register: the check of the body and prisma.user.findUnique by
\* email: 400 without email or password, 409 when a row has the email.
RegisterStart(p) ==
    /\ CanStart(p)
    /\ \E email \in RegisterEmails, password \in Passwords :
         LET r0 == [Blank EXCEPT !.kind = "register", !.email = email,
                                 !.password = password] IN
         IF email = "" \/ password = ""
           THEN Begin(p, Done(r0, "Required"))
         ELSE IF \E existingUser \in userRows : existingUser.email = email
           THEN Begin(p, Done(r0, "AlreadyExists"))
         ELSE Begin(p, [r0 EXCEPT !.pc = "create"])
    /\ UNCHANGED <<walletBalance, orders, gifts, creditTransfers, payments,
                   sessions, credited, completedBy>>

\* POST /register: hashPassword and prisma.user.create with walletBalance
\* DEFAULT_WALLET_CREDIT, answered 201; a create that throws is answered
\* 500 by the catch block.
RegisterCreate(p) ==
    /\ req[p].kind = "register" /\ req[p].pc = "create"
    /\ IF EmailTaken(req[p].email)
         THEN /\ req' = [req EXCEPT ![p] = Done(req[p], "InternalError")]
              /\ UNCHANGED userRows
         ELSE /\ userRows' = userRows \cup
                   {[createdBy |-> p, email |-> req[p].email,
                     walletBalance |-> DEFAULT_WALLET_CREDIT]}
              /\ req' = [req EXCEPT ![p] = Done(req[p], "Registered")]
    /\ UNCHANGED <<walletBalance, orders, gifts, creditTransfers, payments,
                   sessions, credited, completedBy, isAdmin>>

NextRegister ==
    \E p \in Reqs :
        \/ RegisterStart(p)
        \/ RegisterCreate(p)

SpecRegister == Init /\ [][NextRegister]_vars

\* ------------------------------------------------------------ deliveries
\* Authorization header of a request: absent, a string that verifyToken
\* rejects, or a user's access token.
Tokens == {"none", "invalid", "valid"}

\* authenticateToken: 401 without a token, 403 for one that does not verify,
\* else next().
authenticateToken(token) ==
    IF token = "none" THEN "AccessTokenRequired"
    ELSE IF token = "invalid" THEN "InvalidToken"
    ELSE "next"

\* WebhookGate that does not verify the signature.
WebhookGateUnverified(token, signed) == authenticateToken(token)

\* What a delivery to POST /webhook passes before the handler's try block:
\* router.use(authenticateToken), then stripe.webhooks.constructEvent, which
\* throws for a payload that is not signed with the endpoint secret (400).
WebhookGate(token, signed) ==
    IF authenticateToken(token) # "next" THEN authenticateToken(token)
    ELSE IF ~signed THEN "InvalidSignature"
    ELSE "next"

\* parseFloat(session.metadata?.amount || '0') of a delivery whose metadata
\* is not the one set at creation: 0 for an event without metadata, or
\* another amount.
OtherAmounts == {0, 1500}

\* POST /webhook for any delivery of checkout.session.completed: a delivery
\* that passes the gate runs the handler's first database step, any other is
\* answered by the gate.
WebhookDelivery(p) ==
    \E token \in Tokens, signed \in BOOLEAN :
      IF WebhookGate(token, signed) = "next"
        THEN WebhookHandle(p, token, signed, OtherAmounts)
        ELSE /\ CanStart(p)
             /\ \E session \in sessions : Deliverable(session)
             /\ Begin(p, Done([Blank EXCEPT !.kind = "webhook",
                                            !.token = token,
                                            !.signed = signed],
                              WebhookGate(token, signed)))
             /\ UNCHANGED <<walletBalance, orders, gifts, creditTransfers,
                            payments, sessions, credited, completedBy>>

NextDelivery ==
    \E p \in Reqs :
        \/ CheckoutStart(p)
        \/ CheckoutInsert(p)
        \/ WebhookDelivery(p)
        \/ WebhookCredit(p)
        \/ ProcessPendingFind(p)
        \/ ProcessPendingUpdate(p)
        \/ ProcessPendingIncrement(p)

SpecDelivery == Init /\ [][NextDelivery]_vars

\* -------------------------------------------------------------- liveness
\* Top-ups and their completions.  A handler that has started runs on to
\* its response (each awaited database call returns); the processor keeps
\* delivering the notification and the client calls
\* process-pending-payments while request slots are left.
NextLive ==
    \E p \in Reqs :
        \/ CheckoutStart(p)
        \/ CheckoutInsert(p)
        \/ WebhookUpdatePayment(p)
        \/ WebhookCredit(p)
        \/ ProcessPendingFind(p)
        \/ ProcessPendingUpdate(p)
        \/ ProcessPendingIncrement(p)

SpecLive ==
    /\ Init /\ [][NextLive]_vars
    /\ \A p \in Reqs :
         /\ WF_vars(CheckoutInsert(p))
         /\ WF_vars(WebhookCredit(p))
         /\ WF_vars(ProcessPendingUpdate(p))
         /\ WF_vars(ProcessPendingIncrement(p))
    /\ WF_vars(\E p \in Reqs : WebhookUpdatePayment(p))
    /\ WF_vars(\E p \in Reqs : ProcessPendingFind(p))

\* ---------------------------------------------------------------- faults
\* A completion handler fails between two of its database steps: the awaited
\* call rejects (or the process is stopped), the catch block answers 500,
\* and the steps not yet run never run.  Steps already committed stay.
Abort(p) ==
    /\ req[p].kind \in {"webhook", "processPending"}
    /\ InFlight(p)
    /\ Step(p, Done(req[p], "Failed"))
    /\ UNCHANGED <<walletBalance, orders, gifts, creditTransfers, payments,
                   sessions, credited, completedBy>>

\* POST /create-checkout-session with a valid amount when
\* stripe.checkout.sessions.create rejects: no session exists, the catch
\* block answers 500 before prisma.payment.create is reached.
CheckoutProcessorFails(p) ==
    /\ CanStart(p)
    /\ Begin(p, Done([Blank EXCEPT !.kind = "checkout"], "Failed"))
    /\ UNCHANGED <<walletBalance, orders, gifts, creditTransfers, payments,
                   sessions, credited, completedBy>>

\* POST /create-checkout-session when prisma.payment.create rejects after
\* the processor has opened the session: the catch block answers 500; the
\* session is not expired.
CheckoutInsertFails(p) ==
    /\ req[p].kind = "checkout" /\ req[p].pc = "insert"
    /\ Step(p, Done(req[p], "Failed"))
    /\ UNCHANGED <<walletBalance, orders, gifts, creditTransfers, payments,
                   sessions, credited, completedBy>>

NextFault ==
    \/ Next
    \/ \E p \in Reqs : \/ Abort(p)
                        \/ CheckoutProcessorFails(p)
                        \/ CheckoutInsertFails(p)

SpecFault == Init /\ [][NextFault]_vars

\* ------------------------------------------------------------ references
\* POST /create-checkout-session up to the processor call, with a processor
\* whose session may carry a payment intent it has handed out before.
CheckoutStartRepeatedIntent(p) ==
    /\ CanStart(p)
    /\ \E u \in Callers, body \in TopUpBodies,
          intent \in {PaymentIntent(q) : q \in 1..p} \cup {Null} :
         LET r0 == [Blank EXCEPT !.kind = "checkout"] IN
         IF InvalidAmount(body)
           THEN /\ Begin(p, Done(r0, "InvalidAmount"))
                /\ UNCHANGED sessions
           ELSE /\ Begin(p, [r0 EXCEPT !.pc = "insert", !.user = u,
                                       !.amt = body.amount])
                /\ sessions' = sessions \cup
                     {[id |-> p, payment_intent |-> intent,
                       userId |-> u, amount |-> body.amount]}
    /\ UNCHANGED <<walletBalance, orders, gifts, creditTransfers, payments,
                   credited, completedBy>>

NextReference ==
    \E p \in Reqs :
        \/ CheckoutStartRepeatedIntent(p)
        \/ CheckoutInsert(p)
        \/ WebhookUpdatePayment(p)
        \/ WebhookCredit(p)
        \/ ProcessPendingFind(p)
        \/ ProcessPendingUpdate(p)
        \/ ProcessPendingIncrement(p)

SpecReference == Init /\ [][NextReference]_vars

\* ----------------------------------------------------------- admin-status
\* The bodies of PATCH /users/:userId/admin-status: isAdmin a boolean, or
\* not a boolean.
AdminBodies == {[isAdmin |-> b] : b \in BOOLEAN} \cup {[role |-> "admin"]}

\* The :userId of the path: a user, or an id no User row has.
Targets == Users \cup {NoUser}

\* requireAdmin: prisma.user.findUnique of the caller's isAdmin; 403 unless
\* the row is an admin's.
requireAdmin(u) == IF ~isAdmin[u] THEN "AdminRequired" ELSE "next"

\* PATCH /users/:userId/admin-status up to the database update: requireAdmin
\* reads the caller's row, then the handler checks the body and refuses the
\* caller's removal of the caller's own flag.
AdminStatusStart(p) ==
    /\ CanStart(p)
    /\ \E u \in Users, userId \in Targets, body \in AdminBodies :
         LET r0 == [Blank EXCEPT !.kind = "adminStatus", !.user = u,
                                 !.to = userId] IN
         IF requireAdmin(u) # "next"
           THEN Begin(p, Done(r0, requireAdmin(u)))
         ELSE IF "isAdmin" \notin DOMAIN body
           THEN Begin(p, Done(r0, "InvalidInput"))
         ELSE IF u = userId /\ ~body.isAdmin
           THEN Begin(p, Done(r0, "SelfNotAllowed"))
         ELSE Begin(p, [r0 EXCEPT !.pc = "update",
                                  !.isAdmin = body.isAdmin])
    /\ UNCHANGED <<walletBalance, orders, gifts, creditTransfers, payments,
                   sessions, credited, completedBy>>

\* PATCH /users/:userId/admin-status: prisma.user.update({where: {id:
\* userId}, data: {isAdmin}}); a missing row makes update throw P2025:
\* response 404.
AdminStatusUpdate(p) ==
    /\ req[p].kind = "adminStatus" /\ req[p].pc = "update"
    /\ IF req[p].to \notin Users
         THEN /\ req' = [req EXCEPT ![p] = Done(req[p], "UserNotFound")]
              /\ UNCHANGED isAdmin
         ELSE /\ isAdmin' = [isAdmin EXCEPT ![req[p].to] = req[p].isAdmin]
              /\ req' = [req EXCEPT ![p] = Done(req[p], "Updated")]
    /\ UNCHANGED <<walletBalance, orders, gifts, creditTransfers, payments,
                   sessions, credited, completedBy, userRows>>

NextAdmin ==
    \E p \in Reqs :
        \/ AdminStatusStart(p)
        \/ AdminStatusUpdate(p)

SpecAdmin == Init /\ [][NextAdmin]_vars

\* ================================================================ claims
IsDone(p) == req[p].pc = "done"
\* p is a finished purchase, gift or outgoing transfer that reached the
\* balance check.
IsDebit(p) ==
    /\ IsDone(p)
    /\ req[p].kind \in {"purchase", "gift", "transfer"}
    /\ req[p].resp \in {"Created", "InsufficientFunds"}
\* p is a finished request that credited u: a top-up completion for a Payment
\* of u (by either path) or a transfer to u.
IsCreditTo(p, u) ==
    /\ IsDone(p)
    /\ \/ req[p].kind = "webhook" /\ req[p].resp = "Received" /\ req[p].user = u
       \/ req[p].kind = "processPending" /\ req[p].resp = "Processed"
            /\ req[p].user = u
       \/ req[p].kind = "transfer" /\ req[p].resp = "Created" /\ req[p].to = u
\* Request r has written u's balance.
Touched(r, u) ==
    /\ IsDone(r)
    /\ req[r].resp \in {"Created", "Received", "Processed", "Updated"}
    /\ \/ req[r].user = u
       \/ req[r].kind = "transfer" /\ req[r].to = u
\* The audit rows request p created.
RowsOf(p) ==
    {o \in orders : o.id = p} \cup {g \in gifts : g.id = p}
      \cup {t \in creditTransfers : t.id = p}

RECURSIVE SumPairs(_)
\* Sum of the second components of a set of <<id, amount>> pairs.
SumPairs(S) ==
    IF S = {} THEN 0
    ELSE LET x == CHOOSE x \in S : TRUE IN x[2] + SumPairs(S \ {x})

TotalBalance(balance) == SumPairs({<<u, balance[u]>> : u \in Users})

\* C1: in every reachable state every user's stored wallet balance is >= 0.
NonNegativeBalances == \A u \in Users : walletBalance[u] >= 0

\* Two debits that overlapped have both committed and left the buyer at 0.
NonNegativeBalancesWitness ==
    \E p, q \in Reqs :
        /\ p # q /\ IsDebit(p) /\ IsDebit(q)
        /\ req[p].resp = "Created" /\ req[q].resp = "Created"
        /\ req[p].user = req[q].user
        /\ walletBalance[req[p].user] = 0

\* C2: when two debiting requests of one user both find the balance exactly A,
\* each needing A, and nothing else has written that balance, exactly one of
\* them succeeds, with one audit row and balance 0, and the other fails with
\* InsufficientFunds and no audit row.
ExactlyOneDebitSucceeds ==
    \A p, q \in Reqs :
        ( /\ p # q /\ IsDebit(p) /\ IsDebit(q)
          /\ req[p].user = req[q].user
          /\ req[p].amt = req[q].amt
          /\ req[p].bal = req[p].amt /\ req[q].bal = req[q].amt
          /\ \A r \in Reqs \ {p, q} : ~Touched(r, req[p].user) )
        => /\ {req[p].resp, req[q].resp} = {"Created", "InsufficientFunds"}
           /\ Cardinality(RowsOf(p) \cup RowsOf(q)) = 1
           /\ walletBalance[req[p].user] = 0

\* C3: for every Payment the wallet credit is applied at most once, however
\* the webhook and process-pending-payments interleave on its row.
CreditedAtMostOnce == \A i \in DOMAIN credited : credited[i] <= 1

\* C4: a redelivered notification, handled alone after an earlier delivery
\* has completed the Payment, returns success and leaves the balance and the
\* Payment's status as the first delivery left them.
NotificationIdempotent ==
    [][\A p \in Reqs :
         ( /\ req[p].pc = "credit" /\ req[p].solo
           /\ req[p].pre = "succeeded"
           /\ completedBy[req[p].pay] = "webhook"
           /\ req'[p].pc = "done" )
         => /\ walletBalance' = walletBalance
            /\ payments' = payments
            /\ req'[p].resp = "Received"]_vars

\* C5: a notification handled after process-pending-payments has completed
\* its Payment changes neither balance nor status; and a
\* process-pending-payments call made after the notification completed a
\* Payment credits nothing for that Payment.
LateCompletionIsNoOp ==
    [][\A p \in Reqs :
         /\ ( /\ req[p].pc = "credit" /\ req[p].solo
              /\ req[p].pre = "succeeded"
              /\ completedBy[req[p].pay] = "reconcile"
              /\ req'[p].pc = "done" )
            => (walletBalance' = walletBalance /\ payments' = payments)
         /\ ( /\ req[p].pc = "increment" /\ req[p].solo
              /\ req'[p].pc = "done" )
            => \A i \in req[p].snap : completedBy[i] # "webhook"]_vars

\* Ledger sums of user u.
TransfersReceived(u) ==
    SumPairs({<<t.id, t.amount>> : t \in {t \in creditTransfers : t.receiverId = u}})
TransfersSent(u) ==
    SumPairs({<<t.id, t.amount>> : t \in {t \in creditTransfers : t.senderId = u}})
OrdersOf(u) ==
    SumPairs({<<o.id, o.totalAmount>> : o \in {o \in orders : o.userId = u}})
GiftsSent(u) ==
    SumPairs({<<g.id, g.totalAmount>> : g \in {g \in gifts : g.senderId = u}})
SucceededPayments(u) ==
    SumPairs({<<i, payments[i].amount>> :
                i \in {i \in DOMAIN payments :
                         /\ payments[i].userId = u
                         /\ payments[i].status = "succeeded"}})

\* C6: in every state, for every user, balance = initial grant + transfers
\* received + succeeded Payments - Orders - Gifts sent - transfers sent.
LedgerIdentity ==
    \A u \in Users :
        walletBalance[u] =
            DEFAULT_WALLET_CREDIT + TransfersReceived(u) + SucceededPayments(u)
              - OrdersOf(u) - GiftsSent(u) - TransfersSent(u)

\* C7: when a successful debit of user u and a credit to u (a top-up
\* completion or an incoming transfer) are the only requests that wrote u's
\* balance, the balance is the initial one with both applied.
NoLostUpdate ==
    \A p, q \in Reqs :
        ( /\ p # q /\ IsDebit(p) /\ req[p].resp = "Created"
          /\ IsCreditTo(q, req[p].user)
          /\ \A r \in Reqs \ {p, q} : ~Touched(r, req[p].user) )
        => walletBalance[req[p].user] =
             DEFAULT_WALLET_CREDIT - req[p].amt + req[q].amt

\* C8: a transfer of A from X to Y that runs with no concurrent request ends
\* in (Bx - A, By + A) with one new CreditTransfer row when Bx >= A, and
\* otherwise fails with InsufficientFunds, balances and rows unchanged.
TransferConservation ==
    [][\A p \in Reqs :
         ( /\ req[p].kind = "transfer" /\ InFlight(p) /\ req[p].solo
           /\ req'[p].pc = "done" )
         => LET X == req[p].user
                Y == req[p].to
                A == req[p].amt
            IN IF walletBalance[X] >= A
                 THEN /\ walletBalance' =
                           [walletBalance EXCEPT ![X] = @ - A, ![Y] = @ + A]
                      /\ creditTransfers' = creditTransfers \cup
                           {[id |-> p, senderId |-> X, receiverId |-> Y,
                             amount |-> A]}
                      /\ Cardinality(creditTransfers') =
                           Cardinality(creditTransfers) + 1
                      /\ req'[p].resp = "Created"
                 ELSE /\ walletBalance' = walletBalance
                      /\ creditTransfers' = creditTransfers
                      /\ req'[p].resp = "InsufficientFunds"]_vars

\* A transfer that ran alone has succeeded: sender 500, recipient 1500.
TransferConservationWitness ==
    /\ req[1].kind = "transfer" /\ IsDone(1) /\ req[1].resp = "Created"
    /\ \A q \in Reqs \ {1} : req[q].pc = "idle"
    /\ walletBalance[req[1].user] = DEFAULT_WALLET_CREDIT - req[1].amt
    /\ walletBalance[req[1].to] = DEFAULT_WALLET_CREDIT + req[1].amt
    /\ Cardinality(creditTransfers) = 1

\* C9: under any interleaving, the step that commits a transfer leaves the
\* sum of all balances unchanged, and the sender's debit, the recipient's
\* credit and the CreditTransfer row appear in one step.
TransferPreservesTotal ==
    [][\A p \in Reqs :
         ( /\ req[p].kind = "transfer" /\ req[p].pc = "tx"
           /\ req'[p].pc = "done" )
         => /\ TotalBalance(walletBalance') = TotalBalance(walletBalance)
            /\ walletBalance'[req[p].user] # walletBalance[req[p].user]
            /\ RowsOf(p) = {}
            /\ creditTransfers' # creditTransfers]_vars

\* C10: the step in which a purchase fails with InsufficientFunds found
\* balance < totalAmount, creates no Order and leaves every balance
\* unchanged; no Order of that attempt exists afterwards.
PurchaseInsufficientNoEffect ==
    /\ [][\A p \in Reqs :
            ( /\ req[p].pc = "idle"
              /\ req'[p].kind = "purchase"
              /\ req'[p].resp = "InsufficientFunds" )
            => /\ walletBalance[req'[p].user] < req'[p].amt
               /\ walletBalance' = walletBalance
               /\ orders' = orders]_vars
    /\ [](\A p \in Reqs :
            ( /\ IsDone(p) /\ req[p].kind = "purchase"
              /\ req[p].resp = "InsufficientFunds" )
            => RowsOf(p) = {})

\* A purchase has failed with InsufficientFunds after an earlier purchase
\* lowered the buyer's balance below its total.
PurchaseInsufficientWitness ==
    \E p, q \in Reqs :
        /\ IsDone(p) /\ req[p].kind = "purchase"
        /\ req[p].resp = "InsufficientFunds"
        /\ IsDone(q) /\ req[q].kind = "purchase" /\ req[q].resp = "Created"
        /\ req[q].user = req[p].user
        /\ req[p].bal < req[p].amt

\* price * (1 - discountPercentage/100) * quantity, in whole credits.
ListedTotal(productId, quantity) ==
    (Catalog[productId].price * (100 - Catalog[productId].discountPercentage)
       * quantity) \div 100

\* C11: the step that completes a successful purchase creates exactly one
\* Order, whose totalAmount is price * (1 - discount/100) * quantity, and in
\* the same step lowers the buyer's balance by exactly that totalAmount.
PurchaseChargesTotal ==
    [][\A p \in Reqs :
         ( /\ req[p].kind = "purchase" /\ req[p].pc = "tx"
           /\ req'[p].pc = "done" )
         => LET u == req[p].user
                total == ListedTotal(req[p].productId, req[p].quantity)
            IN /\ req'[p].resp = "Created"
               /\ \E o \in orders' \ orders :
                    /\ orders' = orders \cup {o}
                    /\ o.userId = u
                    /\ o.quantity = req[p].quantity
                    /\ o.totalAmount = total
               /\ walletBalance'[u] = walletBalance[u] - total]_vars

\* C12: the step that completes a successful gift records exactly one Gift
\* row with the sender's and the receiver's id, priced as a purchase, lowers
\* the sender's balance by its totalAmount and leaves the receiver's balance
\* unchanged.
GiftChargesSenderOnly ==
    [][\A p \in Reqs :
         ( /\ req[p].kind = "gift" /\ req[p].pc = "tx"
           /\ req'[p].pc = "done" )
         => LET u == req[p].user
                total == ListedTotal(req[p].productId, req[p].quantity)
            IN /\ req'[p].resp = "Created"
               /\ \E g \in gifts' \ gifts :
                    /\ gifts' = gifts \cup {g}
                    /\ g.senderId = u
                    /\ g.receiverId = req[p].to
                    /\ g.totalAmount = total
               /\ walletBalance'[u] = walletBalance[u] - total
               /\ walletBalance'[req[p].to] = walletBalance[req[p].to]]_vars

\* C13: no Gift row and no CreditTransfer row has senderId = receiverId, no
\* gift or transfer addressed to the caller's own account gets past
\* validation, and the step that rejects one changes no balance and no row.
NoSelfGiftOrTransfer ==
    /\ [](/\ \A g \in gifts : g.senderId # g.receiverId
          /\ \A t \in creditTransfers : t.senderId # t.receiverId
          /\ \A p \in Reqs :
               (req[p].kind \in {"gift", "transfer"} /\ InFlight(p))
               => req[p].user # req[p].to)
    /\ [][\A p \in Reqs :
            (req[p].pc # "done" /\ req'[p].resp = "SelfNotAllowed")
            => UNCHANGED <<walletBalance, orders, gifts, creditTransfers,
                           payments>>]_vars

NoSelfGiftOrTransferWitness ==
    /\ \E p \in Reqs : req[p].kind = "gift" /\ req[p].resp = "SelfNotAllowed"
    /\ \E p \in Reqs :
         req[p].kind = "transfer" /\ req[p].resp = "SelfNotAllowed"
    /\ gifts # {} \/ creditTransfers # {}

PaymentStatuses == {"pending", "succeeded"}

\* C14: a Payment's status is always pending or succeeded; a Payment is
\* pending when it is created, no Payment row disappears, and in every step
\* a Payment's status either stays as it is or goes from pending to
\* succeeded, so a succeeded Payment stays succeeded.
PaymentStatusLifecycle ==
    /\ [](\A i \in DOMAIN payments : payments[i].status \in PaymentStatuses)
    /\ [][/\ Len(payments') >= Len(payments)
          /\ \A i \in DOMAIN payments' :
               IF i \in DOMAIN payments
                 THEN \/ payments'[i].status = payments[i].status
                      \/ /\ payments[i].status = "pending"
                         /\ payments'[i].status = "succeeded"
                 ELSE payments'[i].status = "pending"]_vars

\* A succeeded Payment is written again by a second completion.
PaymentStatusLifecycleWitness ==
    \E p, q \in Reqs :
      /\ p # q
      /\ req[p].kind \in {"webhook", "processPending"}
      /\ req[q].kind \in {"webhook", "processPending"}
      /\ req[p].resp \in {"Received", "Processed"}
      /\ req[q].resp \in {"Received", "Processed"}
      /\ \E i \in DOMAIN payments :
           payments[i].status = "succeeded" /\ credited[i] >= 2

\* C15: when create-checkout-session answers with the redirect target, a
\* Payment row of the caller with the requested amount exists and is pending
\* at that moment; no step of create-checkout-session changes a balance.
PendingRowBeforeRedirect ==
    /\ [](\A p \in Reqs :
            (req[p].kind = "checkout" /\ req[p].resp = "OK")
            => /\ req[p].pay \in DOMAIN payments
               /\ payments[req[p].pay].userId = req[p].user
               /\ payments[req[p].pay].amount = req[p].amt
               /\ req[p].amt > 0)
    /\ [][\A p \in Reqs :
            (req'[p].kind = "checkout" /\ req'[p].pc # req[p].pc)
            => /\ walletBalance' = walletBalance
               /\ req'[p].resp = "OK"
                  => /\ req'[p].pay \in DOMAIN payments'
                     /\ payments'[req'[p].pay].status = "pending"]_vars

PendingRowBeforeRedirectWitness ==
    \E p \in Reqs :
      /\ req[p].kind = "checkout" /\ req[p].resp = "OK"
      /\ payments[req[p].pay].status = "pending"
      /\ walletBalance[req[p].user] = DEFAULT_WALLET_CREDIT

\* C16: every completion notification for a session opened by
\* create-checkout-session finds the Payment row stored at initiation: the
\* reference it looks up is the reference that was stored.
NotificationFindsPayment ==
    \A p \in Reqs :
      (req[p].kind = "webhook" /\ req[p].pc = "done")
      => /\ req[p].pay \in DOMAIN payments
         /\ req[p].resp = "Received"

\* C17: no checkout session and no Payment row carries an amount that is not
\* positive, no create-checkout-session request with such an amount gets
\* past validation, and the step that answers 'Invalid amount' opens no
\* session and writes no Payment row.
InvalidAmountRejected ==
    /\ [](/\ \A session \in sessions : session.amount > 0
          /\ \A i \in DOMAIN payments : payments[i].amount > 0
          /\ \A p \in Reqs :
               (req[p].kind = "checkout" /\ req[p].pc # "done")
               => req[p].amt > 0)
    /\ [][\A p \in Reqs :
            ( /\ req[p].pc # "done" /\ req'[p].kind = "checkout"
              /\ req'[p].resp = "InvalidAmount" )
            => UNCHANGED <<sessions, payments, walletBalance>>]_vars

InvalidAmountRejectedWitness ==
    /\ \E p \in Reqs :
         req[p].kind = "checkout" /\ req[p].resp = "InvalidAmount"
    /\ \E p \in Reqs : req[p].kind = "checkout" /\ req[p].resp = "OK"

\* C18: the response of process-pending-payments reports as
\* processedPayments the number of Payments this call itself moved from
\* pending to succeeded, as totalAmount the sum of their amounts, and as
\* newBalance the caller's balance after those credits.
ReconcileReportsOwnWork ==
    [][\A p \in Reqs :
         ( /\ req[p].kind = "processPending" /\ req[p].pc = "increment"
           /\ req'[p].pc = "done" )
         => LET own == SumPairs({<<i, payments[i].amount>> :
                                   i \in req[p].moved})
            IN /\ req'[p].count = Cardinality(req[p].moved)
               /\ req'[p].amt = own
               /\ req'[p].bal = walletBalance[req[p].user] + own
               /\ req'[p].bal = walletBalance'[req[p].user]]_vars

\* C19: when process-pending-payments completes and no other request ran
\* while it did, every Payment of the caller that was pending at its start
\* is succeeded and the caller's balance is the balance at its start plus
\* exactly the sum of those Payments' amounts.
ReconcileAloneCreditsPending ==
    [][\A p \in Reqs :
         ( /\ req[p].kind = "processPending" /\ req[p].pc = "increment"
           /\ req[p].solo /\ req'[p].pc = "done" )
         => /\ \A i \in req[p].snap : payments'[i].status = "succeeded"
            /\ PendingOf(req[p].user)' = {}
            /\ walletBalance'[req[p].user] =
                 walletBalance[req[p].user]
                 + SumPairs({<<i, payments[i].amount>> : i \in req[p].snap})
            /\ \A u \in Users \ {req[p].user} :
                 walletBalance'[u] = walletBalance[u]]_vars

\* Two pending top-ups of u1 reconciled by one call.
ReconcileAloneCreditsPendingWitness ==
    /\ req[1].kind = "checkout" /\ req[2].kind = "checkout"
    /\ req[3].kind = "processPending" /\ req[3].resp = "Processed"
    /\ req[3].count = 2
    /\ \A i \in DOMAIN payments :
         /\ payments[i].status = "succeeded" /\ credited[i] = 1
         /\ completedBy[i] = "reconcile"
    /\ walletBalance["u1"] = DEFAULT_WALLET_CREDIT + 2 * 500

\* C20: the change of a Payment to succeeded and the credit for it are one
\* atomic step, so that when handlers fail part-way and nothing is running
\* any more, every succeeded Payment has been added to its owner's balance
\* and no pending Payment has.
CompletionAtomicUnderFailure ==
    (\A p \in Reqs : ~InFlight(p))
    => \A i \in DOMAIN payments :
         payments[i].status = "succeeded" <=> credited[i] >= 1

\* An audit record is written by the step: a new Order, Gift or
\* CreditTransfer row, or a Payment whose status changes.
AuditWritten ==
    \/ orders' # orders
    \/ gifts' # gifts
    \/ creditTransfers' # creditTransfers
    \/ \E i \in DOMAIN payments : payments'[i].status # payments[i].status

\* C21: every step that changes a user's balance also creates an Order,
\* Gift or CreditTransfer row or changes a Payment's status.
BalanceChangeHasAudit ==
    [][walletBalance' # walletBalance => AuditWritten]_vars

\* C22: the step in which a completion notification finds no Payment for its
\* reference changes no balance and no Payment row, and the notification is
\* answered as received, so that the processor does not deliver it again.
UnknownReferenceHandled ==
    [][\A p \in Reqs :
         ( /\ req[p].pc = "idle" /\ req'[p].kind = "webhook"
           /\ req'[p].pc = "done" /\ req'[p].pay = 0 )
         => /\ UNCHANGED <<walletBalance, payments, credited>>
            /\ req'[p].resp = "Received"]_vars

\* C23: a create-checkout-session request that fails at the processor writes
\* no Payment row and opens no session, and once no create-checkout-session
\* request is running every open checkout session has its Payment row.
NoSessionWithoutPayment ==
    /\ [][\A p \in Reqs :
            ( /\ req[p].pc = "idle" /\ req'[p].kind = "checkout"
              /\ req'[p].resp = "Failed" )
            => UNCHANGED <<payments, sessions, walletBalance>>]_vars
    /\ []((\A p \in Reqs : ~(req[p].kind = "checkout" /\ InFlight(p)))
          => \A session \in sessions :
               \E i \in PaymentsByReference(StoredReference(session)) :
                 /\ payments[i].userId = session.userId
                 /\ payments[i].amount = session.amount)

\* C24: a delivery whose signature does not verify is answered with a
\* rejection in the step that receives it, and that step changes no Payment
\* and no balance.
BadSignatureRejected ==
    [][\A p \in Reqs :
         ( /\ req[p].pc = "idle" /\ req'[p].kind = "webhook"
           /\ ~req'[p].signed )
         => /\ req'[p].pc = "done"
            /\ req'[p].resp \in
                 {"InvalidSignature", "AccessTokenRequired", "InvalidToken"}
            /\ UNCHANGED <<walletBalance, payments, credited,
                           completedBy>>]_vars

\* A delivery that passed authenticateToken is refused for its signature
\* while the Payment it names is pending.
BadSignatureRejectedWitness ==
    \E p \in Reqs :
      /\ req[p].kind = "webhook" /\ req[p].resp = "InvalidSignature"
      /\ req[p].token = "valid" /\ ~req[p].signed
      /\ \E session \in sessions :
           /\ Deliverable(session)
           /\ \E i \in PaymentsByReference(PaymentIntent(session.id)) :
                payments[i].status = "pending"

\* C25: a correctly signed delivery that carries no access token is accepted
\* by the notification endpoint: it reaches the handler, which completes the
\* matching Payment.
SignedDeliveryNeedsNoToken ==
    [][\A p \in Reqs :
         ( /\ req[p].pc = "idle" /\ req'[p].kind = "webhook"
           /\ req'[p].signed /\ req'[p].token = "none" )
         => /\ req'[p].resp \notin {"AccessTokenRequired", "InvalidToken"}
            /\ \A session \in sessions :
                 Deliverable(session)
                 => \A i \in PaymentsByReference(PaymentIntent(session.id)) :
                      payments[i].status = "pending"
                      => \E j \in DOMAIN payments :
                           /\ payments[j].status = "pending"
                           /\ payments'[j].status = "succeeded"]_vars

ValidationErrors ==
    {"InvalidInput", "ProductNotFound", "RecipientNotFound", "SelfNotAllowed",
     "InsufficientFunds"}

\* C26: a purchase, gift or transfer changes a balance or a row only in the
\* step that answers it as created; every other step of such a request, in
\* particular the step that ends it with a validation error, leaves every
\* balance and the Order, Gift and CreditTransfer rows as they were, and a
\* request that ended with a validation error owns no row.
ValidationErrorNoEffect ==
    /\ [][\A p \in Reqs :
            ( /\ req'[p].kind \in {"purchase", "gift", "transfer"}
              /\ req'[p].pc # req[p].pc
              /\ req'[p].resp # "Created" )
            => UNCHANGED <<walletBalance, orders, gifts,
                           creditTransfers>>]_vars
    /\ [](\A p \in Reqs :
            ( /\ req[p].kind \in {"purchase", "gift", "transfer"}
              /\ req[p].resp \in ValidationErrors )
            => RowsOf(p) = {})

\* Requests have ended with a bad input, an unknown product, an unknown
\* recipient and insufficient funds after a successful gift.
ValidationErrorNoEffectWitness ==
    /\ \E p \in Reqs :
         req[p].kind = "gift" /\ req[p].resp = "InsufficientFunds"
    /\ \E p \in Reqs :
         /\ req[p].kind \in {"purchase", "gift", "transfer"}
         /\ req[p].resp \in ValidationErrors \ {"InsufficientFunds"}
    /\ orders # {}

\* HTTP status of a register response.
RegisterStatus(resp) ==
    CASE resp = "Registered" -> 201
      [] resp = "Required" -> 400
      [] resp = "AlreadyExists" -> 409
      [] OTHER -> 500

RowOfRegister(p) == {row \in userRows : row.createdBy = p}

\* C27: no two User rows share an email, every row created by register
\* starts with balance 1000, and a register request with email and password
\* either creates its one row and is answered 201, or is answered 409 and
\* creates none.
RegisterUniqueEmail ==
    /\ \A a, b \in userRows : a.email = b.email => a = b
    /\ \A row \in userRows : row.walletBalance = DEFAULT_WALLET_CREDIT
    /\ \A p \in Reqs :
         ( /\ req[p].kind = "register" /\ req[p].pc = "done"
           /\ req[p].email # "" /\ req[p].password # "" )
         => \/ /\ RegisterStatus(req[p].resp) = 201
               /\ \E row \in RowOfRegister(p) : row.email = req[p].email
            \/ /\ RegisterStatus(req[p].resp) = 409
               /\ RowOfRegister(p) = {}

\* Emails of the request set that have the format of an address, and
\* passwords that are too short.
WellFormedEmails == {"u1", "new@example.com"}
ShortPasswords == {"123", ""}

\* C28: a register request whose email is not a well-formed address or
\* whose password is too short is answered 400 and creates no User row
\* (stated for requests whose email no other row holds).
RegisterRejectsMalformed ==
    \A p \in Reqs :
      ( /\ req[p].kind = "register" /\ req[p].pc = "done"
        /\ \/ req[p].email \notin WellFormedEmails
           \/ req[p].password \in ShortPasswords
        /\ \A row \in userRows \ RowOfRegister(p) :
             row.email # req[p].email )
      => /\ RegisterStatus(req[p].resp) = 400
         /\ RowOfRegister(p) = {}

\* C29: the step that credits a completed Payment adds exactly the Payment
\* row's stored amount to the balance of the row's userId and to no other
\* balance, on the notification path and on the reconcile path.
CreditIsStoredAmount ==
    [][\A p \in Reqs :
         /\ ( /\ req[p].kind = "webhook" /\ req[p].pc = "credit"
              /\ req'[p].pc = "done" )
            => LET row == payments[req[p].pay] IN
               walletBalance' =
                 [walletBalance EXCEPT ![row.userId] = @ + row.amount]
         /\ ( /\ req[p].kind = "processPending"
              /\ req[p].pc = "increment" /\ req'[p].pc = "done" )
            => /\ \A i \in req[p].snap : payments[i].userId = req[p].user
               /\ walletBalance' =
                    [walletBalance EXCEPT ![req[p].user] =
                       @ + SumPairs({<<i, payments[i].amount>> :
                                       i \in req[p].snap})]]_vars

Succeeded(i) == i \in DOMAIN payments /\ payments[i].status = "succeeded"

CreditedOnce(i) == i \in DOMAIN credited /\ credited[i] = 1

\* C30: a Payment for which a completion has arrived (a reconcile call that
\* found it pending, or a notification that set it succeeded) eventually is
\* succeeded, and from some point on its amount stays credited to its owner
\* exactly once.
EventuallyCreditedOnce ==
    \A i \in Reqs :
      /\ (\E p \in Reqs : req[p].kind = "processPending" /\ i \in req[p].snap)
           ~> Succeeded(i)
      /\ Succeeded(i) ~> [](Succeeded(i) /\ CreditedOnce(i))


\* ---------------------------------------------------------------------
\* C31: Order, Gift and CreditTransfer rows are append-only: no step of
\* any operation changes or deletes a row that exists, so an Order keeps
\* the totalAmount it was created with.
RowsAppendOnly ==
    [][ /\ orders \subseteq orders'
        /\ gifts \subseteq gifts'
        /\ creditTransfers \subseteq creditTransfers' ]_vars

\* A Gift row exists and two rows were added after it by operations that
\* started later: an Order and a CreditTransfer.
RowsAppendOnlyWitness ==
    \E g \in gifts, o \in orders, t \in creditTransfers :
        /\ o.id > g.id /\ t.id > g.id
        /\ IsDone(o.id) /\ IsDone(t.id)

PositiveAmounts ==
    /\ \A t \in creditTransfers : t.amount > 0
    /\ \A i \in 1..Len(payments) : payments[i].amount > 0

\* A CreditTransfer row and a Payment row exist, and a transfer or a
\* top-up of an amount that is not positive was rejected.
PositiveAmountsWitness ==
    /\ creditTransfers # {} /\ Len(payments) > 0
    /\ \E q \in Reqs :
         /\ IsDone(q) /\ req[q].kind \in {"transfer", "checkout"}
         /\ req[q].resp \in {"InvalidInput", "InvalidAmount"}

\* ---------------------------------------------------------------------
\* C34: a purchase or gift with quantity < 1 is rejected before the catalog
\* lookup and the balance read (a request answered InvalidInput holds no
\* product, price or balance, and a request that went on to the catalog has
\* quantity >= 1), so every Order row and every Gift row has quantity >= 1.
QuantityAtLeastOne ==
    /\ \A o \in orders : o.quantity >= 1
    /\ \A g \in gifts : g.quantity >= 1
    /\ \A p \in Reqs :
         req[p].kind \in {"purchase", "gift"} =>
           /\ (IsDone(p) /\ req[p].resp = "InvalidInput")
                => /\ req[p].productId = "none"
                   /\ req[p].bal = 0 /\ req[p].amt = 0
           /\ req[p].productId # "none" => req[p].quantity >= 1

\* An Order and a Gift exist and a purchase or gift was rejected for its
\* quantity.
QuantityAtLeastOneWitness ==
    /\ orders # {} /\ gifts # {}
    /\ \E p \in Reqs :
         /\ req[p].kind \in {"purchase", "gift"} /\ IsDone(p)
         /\ req[p].resp = "InvalidInput"

\* ---------------------------------------------------------------------
\* C35: a Payment is succeeded, and credited, only after the processor has
\* reported its checkout as completed; neither a reconciliation nor a manual
\* wallet update raises a balance for a checkout that was not paid.
CreditOnlyAfterPayment ==
    /\ \A i \in 1..Len(payments) :
         /\ payments[i].status = "succeeded" => completedBy[i] = "webhook"
         /\ credited[i] > 0 => completedBy[i] = "webhook"
    /\ \A p \in Reqs :
         (IsDone(p) /\ req[p].kind = "manualUpdate")
           => req[p].resp # "Updated"

\* The step is one of request p, a call of process-pending-payments: its
\* position or its list of rows still to update changes.
ReconcileSteps(p) ==
    /\ req'[p].kind = "processPending"
    /\ req'[p].pc # req[p].pc \/ req'[p].todo # req[p].todo

\* ---------------------------------------------------------------------
\* C36: a step of reconcilePending called by user U leaves every Payment
\* that is not a pending Payment of U as it is, adds and removes no Payment,
\* leaves every other user's balance as it is and leaves all Order, Gift
\* and CreditTransfer rows unchanged.
ReconcileFrame ==
    [][ \A p \in Reqs :
          ReconcileSteps(p) =>
            /\ \A v \in Users \ {req'[p].user} :
                 walletBalance'[v] = walletBalance[v]
            /\ Len(payments') = Len(payments)
            /\ \A i \in 1..Len(payments) :
                 /\ (payments[i].userId # req'[p].user
                       \/ payments[i].status # "pending")
                      => payments'[i] = payments[i]
                 /\ payments'[i].userId = payments[i].userId
                 /\ payments'[i].amount = payments[i].amount
                 /\ payments'[i].stripePaymentIntentId
                      = payments[i].stripePaymentIntentId
            /\ orders' = orders /\ gifts' = gifts
            /\ creditTransfers' = creditTransfers ]_vars

\* A reconciliation of one user has credited that user while a Payment of
\* the other user is still pending.
ReconcileFrameWitness ==
    \E p \in Reqs, i \in 1..Len(payments) :
        /\ req[p].kind = "processPending" /\ IsDone(p)
        /\ req[p].resp = "Processed"
        /\ payments[i].userId # req[p].user
        /\ payments[i].status = "pending"

\* ---------------------------------------------------------------------
\* C37: with an admin to begin with, at least one user is an admin after
\* any sequence and interleaving of admin-status updates.
AnAdminRemains == \E u \in Users : isAdmin[u]
====
